---- MODULE Spec2Model ----
(***************************************************************************)
(* Bookie-Exchange: the exchange-integrity engine (point ledger, exchange  *)
(* state machine, cycle guard, valuation) as a state machine over the      *)
(* committed rows of the database.                                         *)
(*                                                                         *)
(* Spec     : every request handler runs to completion before the next one *)
(*            starts (one action per handler, from its first query to its  *)
(*            last commit).                                                *)
(* SpecConc : handlers of several database sessions interleave between     *)
(*            their queries and their commit (autoflush is off, so a       *)
(*            session writes nothing before db.commit()).                  *)
(* SpecValue, SpecValuate : the handlers of Spec with recalculation of an   *)
(*            item's point value; SpecValuate lists every condition and    *)
(*            draws every outcome of the pricing oracle.                   *)
(* SpecGuard : the cycle guard over four users.                            *)
(* SpecDispute : create_dispute calls of concurrent sessions.              *)
(* SpecGraph : the cycle search on every graph of a few edges.             *)
(* SpecCancel : cancel_exchange commit by commit, with wishlists.          *)
(* SpecLive : the request handlers, every PENDING request decided.         *)
(***************************************************************************)
EXTENDS Integers, Sequences, FiniteSets, TLC

\* ------------------------------------------------------------------ bounds
Users == {"A", "B", "C", "D"}
\* every handler treats users alike, so books are listed in this order of users
ListOrder == <<"A", "B", "C", "D">>
Conditions == {"fair"}
Titles == {"t1"}
MaxBooks == 3
MaxExchanges == 2
MaxPayments == 1
MaxLedger == 6
MaxDisputes == 1
\* bound of SpecDispute (dispute calls of concurrent sessions)
ConcMaxDisputes == 2
\* the users who put items on their wishlist in SpecCancel
WishUsers == {"C"}
\* bound of SpecGraph (the cycle search on every small graph)
GraphMaxEdges == 3
\* bounds of SpecGuard (the cycle guard over four users)
GuardMaxBooks == 4
GuardMaxExchanges == 3
Sessions == {"s1", "s2"}
WebhookStatuses == {"completed", "failed"}
PurchaseAmounts == {100}
Buyers == {"B"}
\* bounds and inputs of SpecValuate: the conditions of a listing and the
\* oracle's replies
ValMaxBooks == 2
ValMaxExchanges == 1
AllConditions == {"excellent", "good", "fair", "poor"}
ReplyNumbers == {0, 20, 80}

\* ------------------------------------------------------- program constants
LISTING_BONUS == 10
\* get_openai_pricing returning None
NoOracle == 0
\* what a call of the pricing oracle comes to: ENABLE_AI_PRICING off, no API
\* key, an exception of the client, a reply without digits, or a reply whose
\* first run of digits reads n; "not_asked" is use_ai = False
OracleFailureKinds ==
    {"disabled", "no_key", "exception", "non_numeric", "not_asked"}
OracleDisabled == [kind |-> "disabled", n |-> 0]
OracleAnswers == {OracleDisabled}
POINT_PRICING == {100, 250, 500, 1000}
ActiveStatuses == {"pending", "approved"}
ExchangeStatus ==
    {"pending", "approved", "rejected", "completed", "cancelled", "disputed"}
NoExchange == 0

VARIABLES balance, ledger, books, exchanges, disputes, payments, sess

dbvars == <<balance, ledger, books, exchanges, disputes, payments>>
vars == <<balance, ledger, books, exchanges, disputes, payments, sess>>

\* ------------------------------------------------------------- valuation
\* calculate_condition_multiplier, in tenths
ConditionMultiplier10(cond) ==
    CASE cond = "excellent" -> 10
      [] cond = "good" -> 8
      [] cond = "fair" -> 6
      [] cond = "poor" -> 4
      [] OTHER -> 6

\* base_points_map of calculate_book_value
DefaultBasePoints(cond) ==
    CASE cond = "excellent" -> 15
      [] cond = "good" -> 12
      [] cond = "fair" -> 8
      [] cond = "poor" -> 5
      [] OTHER -> 10

Min(a, b) == IF a < b THEN a ELSE b
Max(a, b) == IF a > b THEN a ELSE b

\* the clamp of the reply left out
OraclePricing_Unclamped(ai) == IF ai.kind # "number" THEN NoOracle ELSE ai.n

\* get_openai_pricing: the reply clamped to [5, 50], NoOracle on any failure
OraclePricing(ai) ==
    IF ai.kind # "number" THEN NoOracle ELSE Max(5, Min(50, ai.n))

\* Python's round(): to nearest, ties to even; num/den with den > 0
RoundHalfEven(num, den) ==
    LET q == num \div den
        r == num % den
    IN IF 2 * r > den \/ (2 * r = den /\ q % 2 = 1) THEN q + 1 ELSE q

\* calculate_book_value: base * multiplier * (1 + 0.5*demand + 0.5*rarity)
\*   demand = min((0.5 w + 2 a + 0.2 c) / 20, 1) = min(5w + 20a + 2c, 200) / 200
\*   rarity = 1 / (1 + (n - 1)) = 1 / n
\* so the value is base * m10 * (400 n + d n + 200) / (4000 n), computed
\* exactly; the float product of the code rounds to the same integer for
\* the base points 5, 8, 12, 15, 20 and 50 at up to four requests and copies.
Valuate(base, cond, wishlistCount, activeCount, completedCount, copies) ==
    LET d == Min(5 * wishlistCount + 20 * activeCount + 2 * completedCount, 200)
        n == IF copies = 0 THEN 1 ELSE copies
        num == base * ConditionMultiplier10(cond) * (400 * n + d * n + 200)
    IN Max(1, RoundHalfEven(num, 4000 * n))

\* ---------------------------------------------------------------- helpers
Ids(seq) == 1..Len(seq)

RECURSIVE SumAmounts(_, _)
SumAmounts(seq, u) ==
    IF seq = <<>> THEN 0
    ELSE (IF Head(seq).user = u THEN Head(seq).amount ELSE 0)
         + SumAmounts(Tail(seq), u)

LedgerEntry(u, amt, type, exch) ==
    [user |-> u, amount |-> amt, type |-> type, exch |-> exch]

\* demand inputs of calculate_demand_score for book b over a request table
ActiveCount(exs, b) ==
    Cardinality({e \in Ids(exs) : exs[e].book = b /\ exs[e].status \in ActiveStatuses})
CompletedCount(exs, b) ==
    Cardinality({e \in Ids(exs) : exs[e].book = b /\ exs[e].status = "completed"})
\* same_books_count of calculate_rarity_score
CopiesAvailable(bks, b) ==
    Cardinality({x \in Ids(bks) : bks[x].title = bks[b].title /\ bks[x].avail})

\* the point value stored on the item taken as base points
CalculateBookValue_FromStoredValue(bks, exs, b, ai) ==
    LET base == IF OraclePricing(ai) # NoOracle THEN OraclePricing(ai)
                ELSE bks[b].value
    IN Valuate(base, bks[b].cond, Cardinality(bks[b].wish), ActiveCount(exs, b),
               CompletedCount(exs, b), CopiesAvailable(bks, b))

\* calculate_book_value over the committed rows
CalculateBookValue(bks, exs, b, ai) ==
    LET base == IF OraclePricing(ai) # NoOracle THEN OraclePricing(ai)
                ELSE DefaultBasePoints(bks[b].cond)
    IN Valuate(base, bks[b].cond, Cardinality(bks[b].wish), ActiveCount(exs, b),
               CompletedCount(exs, b), CopiesAvailable(bks, b))

\* ------------------------------------------------------------ cycle guard
\* ExchangeGraph.graph: user -> list of users (absent key = empty list)
EmptyGraph == [u \in Users |-> <<>>]

InSeq(x, seq) == \E i \in 1..Len(seq) : seq[i] = x

\* ExchangeGraph.add_edge
AddEdge(g, from, to) ==
    IF InSeq(to, g[from]) THEN g ELSE [g EXCEPT ![from] = Append(@, to)]

\* build_exchange_graph: edges requester -> owner of PENDING/APPROVED rows
RECURSIVE BuildFrom(_, _, _, _)
BuildFrom(exs, i, exclude, g) ==
    IF i > Len(exs) THEN g
    ELSE BuildFrom(exs, i + 1, exclude,
            IF exs[i].status \in ActiveStatuses /\ i # exclude
            THEN AddEdge(g, exs[i].requester, exs[i].owner)
            ELSE g)

\* every request taken as an edge, whatever its status
BuildExchangeGraph_AllStatuses(exs, exclude) ==
    BuildFrom([i \in Ids(exs) |-> [exs[i] EXCEPT !.status = "pending"]],
              1, exclude, EmptyGraph)

BuildExchangeGraph(exs, exclude) == BuildFrom(exs, 1, exclude, EmptyGraph)

\* ExchangeGraph.has_cycle: dfs(node) with the visited set and the
\* recursion stack. The visited set is kept as the list of the nodes in the
\* order of their visited.add(node), so that it also tells how often dfs
\* was entered; the result carries it back to the caller.
RECURSIVE Dfs(_, _, _, _)
RECURSIVE DfsNeighbors(_, _, _, _, _)
Dfs(g, node, visited, stack) ==
    DfsNeighbors(g, node, 1, Append(visited, node), stack \cup {node})

\* a neighbour is entered whenever it is not on the recursion stack
DfsNeighbors_StackOnly(g, node, i, visited, stack) ==
    IF i > Len(g[node]) THEN [found |-> FALSE, visited |-> visited]
    ELSE LET nb == g[node][i]
         IN IF nb \notin stack
            THEN LET r == Dfs(g, nb, visited, stack)
                 IN IF r.found THEN r
                    ELSE DfsNeighbors(g, node, i + 1, r.visited, stack)
            ELSE [found |-> TRUE, visited |-> visited]

DfsNeighbors(g, node, i, visited, stack) ==
    IF i > Len(g[node]) THEN [found |-> FALSE, visited |-> visited]
    ELSE LET nb == g[node][i]
         IN IF ~InSeq(nb, visited)
            THEN LET r == Dfs(g, nb, visited, stack)
                 IN IF r.found THEN r
                    ELSE DfsNeighbors(g, node, i + 1, r.visited, stack)
            ELSE IF nb \in stack
                 THEN [found |-> TRUE, visited |-> visited]
                 ELSE DfsNeighbors(g, node, i + 1, visited, stack)

HasCycle(g, start) == Dfs(g, start, <<>>, {}).found

\* the temporary edge added in the wrong direction
WouldCreateCycle_Reversed(g, from, to) ==
    HasCycle([g EXCEPT ![to] = Append(@, from)], from)

\* ExchangeGraph.would_create_cycle: append the temporary edge, search
WouldCreateCycle(g, from, to) ==
    HasCycle([g EXCEPT ![from] = Append(@, to)], from)

\* only a direct counter-request of the owner is recognised
CheckCircularExchange_DirectOnly(exs, requester, owner) ==
    IF requester = owner THEN FALSE
    ELSE InSeq(requester, BuildExchangeGraph(exs, NoExchange)[owner])

\* the early return for requester = owner left out
CheckCircularExchange_NoSelfShortcut(exs, requester, owner) ==
    WouldCreateCycle(BuildExchangeGraph(exs, NoExchange), requester, owner)

\* check_circular_exchange
CheckCircularExchange(exs, requester, owner) ==
    IF requester = owner THEN FALSE
    ELSE WouldCreateCycle(BuildExchangeGraph(exs, NoExchange), requester, owner)

\* the keys of ExchangeGraph.graph in insertion order: the requesters of
\* the PENDING/APPROVED rows, each at its first row
RECURSIVE GraphKeys(_, _, _)
GraphKeys(exs, i, keys) ==
    IF i > Len(exs) THEN keys
    ELSE GraphKeys(exs, i + 1,
            IF exs[i].status \in ActiveStatuses /\ ~InSeq(exs[i].requester, keys)
            THEN Append(keys, exs[i].requester)
            ELSE keys)

\* path.index(node)
IndexOf(x, seq) == CHOOSE i \in 1..Len(seq) : seq[i] = x /\ \A j \in 1..(i - 1) : seq[j] # x

\* dfs_cycle of detect_exchange_cycles: the path is copied for each call,
\* the visited set and the list of cycles are shared
RECURSIVE DfsCycle(_, _, _, _)
RECURSIVE DfsCycleNeighbors(_, _, _, _, _)
DfsCycle(g, node, path, st) ==
    IF InSeq(node, path)
    THEN [st EXCEPT !.cycles =
            Append(@, SubSeq(path, IndexOf(node, path), Len(path)) \o <<node>>)]
    ELSE IF node \in st.visited THEN st
    ELSE DfsCycleNeighbors(g, node, 1, Append(path, node),
            [st EXCEPT !.visited = @ \cup {node}])
DfsCycleNeighbors(g, node, i, path, st) ==
    IF i > Len(g[node]) THEN st
    ELSE DfsCycleNeighbors(g, node, i + 1, path,
            DfsCycle(g, g[node][i], path, st))

RECURSIVE DetectFrom(_, _, _, _)
DetectFrom(g, keys, i, st) ==
    IF i > Len(keys) THEN st
    ELSE DetectFrom(g, keys, i + 1,
            IF keys[i] \notin st.visited THEN DfsCycle(g, keys[i], <<>>, st)
            ELSE st)

\* detect_exchange_cycles: the list of cycles, each a list of users
DetectExchangeCycles(exs) ==
    DetectFrom(BuildExchangeGraph(exs, NoExchange), GraphKeys(exs, 1, <<>>), 1,
               [cycles |-> <<>>, visited |-> {}]).cycles

\* a database session with no request in flight; a session in flight holds
\* the rows its handler has loaded (SessionLocal, autoflush off)
IdleSession ==
    [pc |-> "idle", user |-> "A", book |-> 0, exch |-> 0, owner |-> "A",
     avail |-> FALSE, value |-> 0, bal |-> 0, obal |-> 0]

\* ------------------------------------------------------------------- Init
Init ==
    /\ balance = [u \in Users |-> 0]
    /\ ledger = <<>>
    /\ books = <<>>
    /\ exchanges = <<>>
    /\ disputes = <<>>
    /\ payments = <<>>
    /\ sess = [s \in Sessions |-> IdleSession]

\* ------------------------------------------------------------ create_book
\* wish: the users with a Wishlist row for the book
NewBook(u, cond, title) ==
    [owner |-> u, avail |-> TRUE, value |-> DefaultBasePoints(cond),
     cond |-> cond, title |-> title, wish |-> {}]

CreateBook(u, cond, title, ai) ==
    /\ IF \E b \in Ids(books) : books[b].owner = u /\ books[b].title = title
       THEN UNCHANGED <<books, balance, ledger>>
       ELSE LET b == Len(books) + 1
                listed == Append(books, NewBook(u, cond, title))
                newValue == CalculateBookValue(listed, exchanges, b, ai)
            IN /\ books' = [listed EXCEPT ![b].value = newValue]
               /\ balance' = [balance EXCEPT ![u] = @ + LISTING_BONUS]
               /\ ledger' = Append(ledger,
                     LedgerEntry(u, LISTING_BONUS, "earned", NoExchange))
    /\ UNCHANGED <<exchanges, disputes, payments, sess>>

\* ------------------------------------------------- create_exchange_request
\* the cost taken from the condition's base points, not from point_value
NewRequest_BaseCost(b, u, bk) ==
    [book |-> b, requester |-> u, owner |-> bk.owner, status |-> "pending",
     cost |-> DefaultBasePoints(bk.cond), completed |-> FALSE]

NewRequest(b, u, bk) ==
    [book |-> b, requester |-> u, owner |-> bk.owner, status |-> "pending",
     cost |-> bk.value, completed |-> FALSE]

\* the balance check left out
CreateOutcome_NoFundsCheck(bks, exs, bal, u, b) ==
    IF b \notin Ids(bks) THEN "NotFound"
    ELSE IF ~bks[b].avail THEN "Unavailable"
    ELSE IF bks[b].owner = u THEN "SelfTrade"
    ELSE IF CheckCircularExchange(exs, u, bks[b].owner) THEN "CircularExchange"
    ELSE "ok"

\* the ownership check made before the availability check
CreateOutcome_SelfTradeFirst(bks, exs, bal, u, b) ==
    IF b \notin Ids(bks) THEN "NotFound"
    ELSE IF bks[b].owner = u THEN "SelfTrade"
    ELSE IF ~bks[b].avail THEN "Unavailable"
    ELSE IF CheckCircularExchange(exs, u, bks[b].owner) THEN "CircularExchange"
    ELSE IF bal[u] < bks[b].value THEN "InsufficientFunds"
    ELSE "ok"

CreateOutcome(bks, exs, bal, u, b) ==
    IF b \notin Ids(bks) THEN "NotFound"
    ELSE IF ~bks[b].avail THEN "Unavailable"
    ELSE IF bks[b].owner = u THEN "SelfTrade"
    ELSE IF CheckCircularExchange(exs, u, bks[b].owner) THEN "CircularExchange"
    ELSE IF bal[u] < bks[b].value THEN "InsufficientFunds"
    ELSE "ok"

CreateExchangeRequest(u, b) ==
    /\ IF CreateOutcome(books, exchanges, balance, u, b) = "ok"
       THEN /\ books' = [books EXCEPT ![b].avail = FALSE]
            /\ exchanges' = Append(exchanges, NewRequest(b, u, books[b]))
       ELSE UNCHANGED <<books, exchanges>>
    /\ UNCHANGED <<balance, ledger, disputes, payments, sess>>

\* ------------------------------------------------------- approve_exchange
\* the balance re-check left out
ApproveOutcome_NoFundsCheck(exs, bal, u, e) ==
    IF e \notin Ids(exs) THEN "NotFound"
    ELSE IF exs[e].owner # u THEN "Forbidden"
    ELSE "ok"

\* the funds check applied to the caller instead of the requester
ApproveOutcome_CallerFunds(exs, bal, u, e) ==
    IF e \notin Ids(exs) THEN "NotFound"
    ELSE IF exs[e].owner # u THEN "Forbidden"
    ELSE IF bal[u] < exs[e].cost THEN "InsufficientFunds"
    ELSE "ok"

\* The handler checks the caller against the owner recorded on the request
\* and does not look at the request's status.
ApproveOutcome(exs, bal, u, e) ==
    IF e \notin Ids(exs) THEN "NotFound"
    ELSE IF exs[e].owner # u THEN "Forbidden"
    ELSE IF bal[exs[e].requester] < exs[e].cost THEN "InsufficientFunds"
    ELSE "ok"

RejectOutcome(exs, u, e) ==
    IF e \notin Ids(exs) THEN "NotFound"
    ELSE IF exs[e].owner # u THEN "Forbidden"
    ELSE "ok"

\* the credit of the old owner left out
Settle_DebitOnly(bal, requester, oldOwner, cost) ==
    [bal EXCEPT ![requester] = @ - cost]

\* the debit of the requester left out
Settle_CreditOnly(bal, requester, oldOwner, cost) ==
    [bal EXCEPT ![oldOwner] = @ + cost]

\* balances after the debit of the requester and the credit of the old owner
Settle(bal, requester, oldOwner, cost) ==
    LET debited == [bal EXCEPT ![requester] = @ - cost]
    IN [debited EXCEPT ![oldOwner] = @ + cost]

\* the amount taken from the item's point value at the time of approval
SettlementEntries_CurrentValue(requester, oldOwner, cost, e) ==
    <<LedgerEntry(requester, -books[exchanges[e].book].value, "redeemed", e),
      LedgerEntry(oldOwner, books[exchanges[e].book].value, "earned", e)>>

\* the two PointTransaction rows of an approval, in the order they are added
SettlementEntries(requester, oldOwner, cost, e) ==
    <<LedgerEntry(requester, -cost, "redeemed", e),
      LedgerEntry(oldOwner, cost, "earned", e)>>

\* the approval stored as APPROVED, to be completed by a later call
Completed_StopsAtApproved(exs, e) ==
    [exs EXCEPT ![e].status = "approved", ![e].completed = TRUE]

\* completed_at written, the status left as it was
Completed_StatusNotWritten(exs, e) == [exs EXCEPT ![e].completed = TRUE]

\* exchange.status = COMPLETED; exchange.completed_at = utcnow()
Completed(exs, e) ==
    [exs EXCEPT ![e].status = "completed", ![e].completed = TRUE]

ApproveExchange(u, e) ==
    /\ IF ApproveOutcome(exchanges, balance, u, e) = "ok"
       THEN LET ex == exchanges[e]
                oldOwner == books[ex.book].owner
            IN /\ books' = [books EXCEPT ![ex.book].owner = ex.requester,
                                         ![ex.book].avail = TRUE]
               /\ balance' = Settle(balance, ex.requester, oldOwner, ex.cost)
               /\ ledger' = ledger \o
                     SettlementEntries(ex.requester, oldOwner, ex.cost, e)
               /\ exchanges' = Completed(exchanges, e)
       ELSE UNCHANGED <<books, balance, ledger, exchanges>>
    /\ UNCHANGED <<disputes, payments, sess>>

\* a rejection that also hands the item back to the owner on the request
RejectExchange_RestoresOwner(u, e) ==
    /\ IF RejectOutcome(exchanges, u, e) = "ok"
       THEN /\ exchanges' = [exchanges EXCEPT ![e].status = "rejected"]
            /\ books' = [books EXCEPT ![exchanges[e].book].avail = TRUE,
                                      ![exchanges[e].book].owner = exchanges[e].owner]
       ELSE UNCHANGED <<books, exchanges>>
    /\ UNCHANGED <<balance, ledger, disputes, payments, sess>>

\* a rejection that leaves the item reserved
RejectExchange_KeepsUnavailable(u, e) ==
    /\ IF RejectOutcome(exchanges, u, e) = "ok"
       THEN /\ exchanges' = [exchanges EXCEPT ![e].status = "rejected"]
            /\ UNCHANGED books
       ELSE UNCHANGED <<books, exchanges>>
    /\ UNCHANGED <<balance, ledger, disputes, payments, sess>>

RejectExchange(u, e) ==
    /\ IF RejectOutcome(exchanges, u, e) = "ok"
       THEN /\ exchanges' = [exchanges EXCEPT ![e].status = "rejected"]
            /\ books' = [books EXCEPT ![exchanges[e].book].avail = TRUE]
       ELSE UNCHANGED <<books, exchanges>>
    /\ UNCHANGED <<balance, ledger, disputes, payments, sess>>

\* -------------------------------------------------------- cancel_exchange
\* the check that the caller is a party of the exchange left out
CancelOutcome_NoPartyCheck(exs, u, e) ==
    IF e \notin Ids(exs) THEN "NotFound"
    ELSE IF exs[e].status # "pending" THEN "InvalidState"
    ELSE "ok"

\* the status check left out
CancelOutcome_NoStatusCheck(exs, u, e) ==
    IF e \notin Ids(exs) THEN "NotFound"
    ELSE IF exs[e].requester # u /\ exs[e].owner # u THEN "Forbidden"
    ELSE "ok"

CancelOutcome(exs, u, e) ==
    IF e \notin Ids(exs) THEN "NotFound"
    ELSE IF exs[e].requester # u /\ exs[e].owner # u THEN "Forbidden"
    ELSE IF exs[e].status # "pending" THEN "InvalidState"
    ELSE "ok"

\* a cancel that leaves the item unavailable
CancelExchange_KeepsUnavailable(u, e) ==
    /\ IF CancelOutcome(exchanges, u, e) = "ok"
       THEN /\ exchanges' = [exchanges EXCEPT ![e].status = "cancelled"]
            /\ UNCHANGED books
       ELSE UNCHANGED <<books, exchanges>>
    /\ UNCHANGED <<balance, ledger, disputes, payments, sess>>

CancelExchange(u, e) ==
    /\ IF CancelOutcome(exchanges, u, e) = "ok"
       THEN /\ books' = [books EXCEPT ![exchanges[e].book].avail = TRUE]
            /\ exchanges' = [exchanges EXCEPT ![e].status = "cancelled"]
       ELSE UNCHANGED <<books, exchanges>>
    /\ UNCHANGED <<balance, ledger, disputes, payments, sess>>

\* --------------------------------------------------------- create_dispute
HasOpenDispute(ds, e) ==
    \E d \in Ids(ds) : ds[d].exch = e /\ ds[d].status = "open"

\* the status check left out
DisputeOutcome_NoStatusCheck(exs, ds, u, e) ==
    IF e \notin Ids(exs) THEN "NotFound"
    ELSE IF exs[e].requester # u /\ exs[e].owner # u THEN "Forbidden"
    ELSE IF HasOpenDispute(ds, e) THEN "DuplicateDispute"
    ELSE "ok"

DisputeOutcome(exs, ds, u, e) ==
    IF e \notin Ids(exs) THEN "NotFound"
    ELSE IF exs[e].requester # u /\ exs[e].owner # u THEN "Forbidden"
    ELSE IF exs[e].status \notin {"approved", "completed"} THEN "InvalidState"
    ELSE IF HasOpenDispute(ds, e) THEN "DuplicateDispute"
    ELSE "ok"

CreateDispute(u, e) ==
    /\ IF DisputeOutcome(exchanges, disputes, u, e) = "ok"
       THEN /\ disputes' = Append(disputes,
                  [exch |-> e, reporter |-> u, status |-> "open"])
            /\ exchanges' = [exchanges EXCEPT ![e].status = "disputed"]
       ELSE UNCHANGED <<disputes, exchanges>>
    /\ UNCHANGED <<balance, ledger, books, payments, sess>>

\* -------------------------------------------------------- purchase_points
PurchasePoints(u, amt) ==
    /\ IF amt \notin POINT_PRICING
       THEN UNCHANGED <<payments, balance, ledger>>
       ELSE /\ payments' = Append(payments,
                  [user |-> u, amount |-> amt, status |-> "completed"])
            /\ balance' = [balance EXCEPT ![u] = @ + amt]
            /\ ledger' = Append(ledger,
                  LedgerEntry(u, amt, "purchased", NoExchange))
    /\ UNCHANGED <<books, exchanges, disputes, sess>>

\* -------------------------------------------------------- payment_webhook
\* a failed payment taken back by rewriting the purchase entries to 0
PaymentWebhook_RewritesOnFailure(p, st) ==
    /\ IF p \notin Ids(payments)
       THEN UNCHANGED <<payments, balance, ledger>>
       ELSE LET t == payments[p]
            IN /\ payments' = [payments EXCEPT ![p].status = st]
               /\ IF st = "completed" /\ t.status # "completed"
                  THEN /\ balance' = [balance EXCEPT ![t.user] = @ + t.amount]
                       /\ ledger' = Append(ledger,
                             LedgerEntry(t.user, t.amount, "purchased", NoExchange))
                  ELSE IF st = "failed" /\ t.status = "completed"
                  THEN /\ balance' = balance
                       /\ ledger' = [i \in Ids(ledger) |->
                             IF ledger[i].type = "purchased" /\ ledger[i].user = t.user
                             THEN [ledger[i] EXCEPT !.amount = 0]
                             ELSE ledger[i]]
                  ELSE UNCHANGED <<balance, ledger>>
    /\ UNCHANGED <<books, exchanges, disputes, sess>>

PaymentWebhook(p, st) ==
    /\ IF p \notin Ids(payments)
       THEN UNCHANGED <<payments, balance, ledger>>
       ELSE LET t == payments[p]
            IN /\ payments' = [payments EXCEPT ![p].status = st]
               /\ IF st = "completed" /\ t.status # "completed"
                  THEN /\ balance' = [balance EXCEPT ![t.user] = @ + t.amount]
                       /\ ledger' = Append(ledger,
                             LedgerEntry(t.user, t.amount, "purchased", NoExchange))
                  ELSE UNCHANGED <<balance, ledger>>
    /\ UNCHANGED <<books, exchanges, disputes, sess>>

\* ------------------------------------------------- recalculate_book_value
RecalculateOutcome(bks, u, b) ==
    IF b \notin Ids(bks) THEN "NotFound"
    ELSE IF bks[b].owner # u THEN "Forbidden"
    ELSE "ok"

\* update_book_value: book.point_value = calculate_book_value(...); commit
UpdateBookValue(bks, exs, b, ai) ==
    [bks EXCEPT ![b].value = CalculateBookValue(bks, exs, b, ai)]

RecalculateBookValue(u, b, ai) ==
    /\ IF RecalculateOutcome(books, u, b) = "ok"
       THEN books' = UpdateBookValue(books, exchanges, b, ai)
       ELSE UNCHANGED books
    /\ UNCHANGED <<balance, ledger, exchanges, disputes, payments, sess>>

\* ---------------------------------------------- handlers run one at a time
ListBook ==
    /\ Len(books) < MaxBooks
    /\ Len(books) < Len(ListOrder)
    /\ Len(ledger) < MaxLedger
    /\ \E c \in Conditions, t \in Titles, ai \in OracleAnswers :
          CreateBook(ListOrder[Len(books) + 1], c, t, ai)

Purchase ==
    /\ Len(payments) < MaxPayments
    /\ Len(ledger) < MaxLedger
    /\ \E u \in Buyers, amt \in PurchaseAmounts : PurchasePoints(u, amt)

Webhook ==
    /\ Len(ledger) < MaxLedger
    /\ \E p \in 1..MaxPayments, st \in WebhookStatuses : PaymentWebhook(p, st)

Request ==
    /\ Len(exchanges) < MaxExchanges
    /\ \E u \in Users, b \in 1..MaxBooks : CreateExchangeRequest(u, b)

Approve ==
    /\ Len(ledger) + 2 <= MaxLedger
    /\ \E u \in Users, e \in 1..MaxExchanges : ApproveExchange(u, e)

Reject == \E u \in Users, e \in 1..MaxExchanges : RejectExchange(u, e)

Cancel == \E u \in Users, e \in 1..MaxExchanges : CancelExchange(u, e)

Dispute ==
    /\ Len(disputes) < MaxDisputes
    /\ \E u \in Users, e \in 1..MaxExchanges : CreateDispute(u, e)

Recalculate ==
    \E u \in Users, b \in 1..MaxBooks, ai \in OracleAnswers :
        RecalculateBookValue(u, b, ai)

Next ==
    \/ ListBook
    \/ Purchase
    \/ Webhook
    \/ Request
    \/ Approve
    \/ Reject
    \/ Cancel
    \/ Dispute

Spec == Init /\ [][Next]_vars

\* ----------------- the exchange handlers together with recalculation
NextValue ==
    \/ ListBook
    \/ Request
    \/ Approve
    \/ Reject
    \/ Cancel
    \/ Dispute
    \/ Recalculate

SpecValue == Init /\ [][NextValue]_vars

\* ------------------------------------- handlers of concurrent sessions
\* Each query reads the committed rows; a row loaded once is not read again
\* by the same session; db.commit() writes the changed columns at once.

\* create_exchange_request up to the availability and ownership checks
BeginCreate(s, u, b) ==
    /\ sess[s].pc = "idle"
    /\ b \in Ids(books)
    /\ books[b].avail
    /\ books[b].owner # u
    /\ sess' = [sess EXCEPT ![s] =
          [IdleSession EXCEPT !.pc = "create_read", !.user = u, !.book = b,
                              !.owner = books[b].owner, !.avail = TRUE,
                              !.value = books[b].value, !.bal = balance[u]]]
    /\ UNCHANGED dbvars

\* check_circular_exchange on the rows committed now, then the funds check
CreateCycleCheck(s) ==
    /\ sess[s].pc = "create_read"
    /\ IF \/ CheckCircularExchange(exchanges, sess[s].user, sess[s].owner)
          \/ sess[s].bal < sess[s].value
       THEN sess' = [sess EXCEPT ![s] = IdleSession]
       ELSE sess' = [sess EXCEPT ![s].pc = "create_checked"]
    /\ UNCHANGED dbvars

\* book.is_available = False; db.add(exchange_request); db.commit()
CreateCommit(s) ==
    /\ sess[s].pc = "create_checked"
    /\ books' = [books EXCEPT ![sess[s].book].avail = FALSE]
    /\ exchanges' = Append(exchanges,
          [book |-> sess[s].book, requester |-> sess[s].user,
           owner |-> sess[s].owner, status |-> "pending",
           cost |-> sess[s].value, completed |-> FALSE])
    /\ sess' = [sess EXCEPT ![s] = IdleSession]
    /\ UNCHANGED <<balance, ledger, disputes, payments>>

\* approve_exchange (approve = true) up to the funds check
BeginApprove(s, u, e) ==
    /\ sess[s].pc = "idle"
    /\ ApproveOutcome(exchanges, balance, u, e) = "ok"
    /\ LET b == exchanges[e].book
       IN sess' = [sess EXCEPT ![s] =
             [IdleSession EXCEPT !.pc = "approve_read", !.user = u, !.exch = e,
                                 !.book = b, !.owner = books[b].owner,
                                 !.avail = books[b].avail,
                                 !.bal = balance[exchanges[e].requester],
                                 !.obal = balance[books[b].owner]]]
    /\ UNCHANGED dbvars

\* db.commit() of the approval: the columns the handler changed
ApproveCommit(s) ==
    /\ sess[s].pc = "approve_read"
    /\ LET e == sess[s].exch
           b == sess[s].book
           R == exchanges[e].requester
           O == sess[s].owner
           c == exchanges[e].cost
       IN /\ books' = [books EXCEPT
                ![b].owner = IF O # R THEN R ELSE @,
                ![b].avail = IF sess[s].avail THEN @ ELSE TRUE]
          /\ balance' = IF R = O THEN balance
                        ELSE [balance EXCEPT ![R] = sess[s].bal - c,
                                             ![O] = sess[s].obal + c]
          /\ ledger' = ledger \o SettlementEntries(R, O, c, e)
          /\ exchanges' = Completed(exchanges, e)
    /\ sess' = [sess EXCEPT ![s] = IdleSession]
    /\ UNCHANGED <<disputes, payments>>

InFlight(pcs) == Cardinality({s \in Sessions : sess[s].pc \in pcs})

StartCreate ==
    /\ Len(exchanges) + InFlight({"create_read", "create_checked"}) < MaxExchanges
    /\ \E s \in Sessions, u \in Users, b \in 1..MaxBooks : BeginCreate(s, u, b)

CheckCreate == \E s \in Sessions : CreateCycleCheck(s)

CommitCreate == \E s \in Sessions : CreateCommit(s)

StartApprove ==
    /\ Len(ledger) + 2 * (InFlight({"approve_read"}) + 1) <= MaxLedger
    /\ \E s \in Sessions, u \in Users, e \in 1..MaxExchanges : BeginApprove(s, u, e)

CommitApprove == \E s \in Sessions : ApproveCommit(s)

NextConc ==
    \/ ListBook
    \/ StartCreate
    \/ CheckCreate
    \/ CommitCreate
    \/ StartApprove
    \/ CommitApprove

SpecConc == Init /\ [][NextConc]_vars

\* ------------------- the request graph over four users, without settlement
GuardListBook ==
    /\ Len(books) < GuardMaxBooks
    /\ Len(books) < Len(ListOrder)
    /\ \E c \in Conditions, t \in Titles, ai \in OracleAnswers :
          CreateBook(ListOrder[Len(books) + 1], c, t, ai)

GuardRequest ==
    /\ Len(exchanges) < GuardMaxExchanges
    /\ \E u \in Users, b \in 1..GuardMaxBooks : CreateExchangeRequest(u, b)

GuardReject == \E u \in Users, e \in 1..GuardMaxExchanges : RejectExchange(u, e)

GuardCancel == \E u \in Users, e \in 1..GuardMaxExchanges : CancelExchange(u, e)

NextGuard ==
    \/ GuardListBook
    \/ GuardRequest
    \/ GuardReject
    \/ GuardCancel

SpecGuard == Init /\ [][NextGuard]_vars

\* ------------- valuation over every condition and every oracle outcome
OracleReplies ==
    {[kind |-> k, n |-> 0] : k \in OracleFailureKinds}
        \cup {[kind |-> "number", n |-> x] : x \in ReplyNumbers}

ValuateListBook ==
    /\ Len(books) < ValMaxBooks
    /\ Len(books) < Len(ListOrder)
    /\ Len(ledger) < MaxLedger
    /\ \E c \in AllConditions, t \in Titles, ai \in OracleReplies :
          CreateBook(ListOrder[Len(books) + 1], c, t, ai)

ValuateRecalculate ==
    \E u \in Users, b \in 1..ValMaxBooks, ai \in OracleReplies :
        RecalculateBookValue(u, b, ai)

ValuateRequest ==
    /\ Len(exchanges) < ValMaxExchanges
    /\ \E u \in Users, b \in 1..ValMaxBooks : CreateExchangeRequest(u, b)

NextValuate ==
    \/ ValuateListBook
    \/ ValuateRecalculate
    \/ ValuateRequest
    \/ Approve

SpecValuate == Init /\ [][NextValuate]_vars

\* --------------------------------- dispute calls of concurrent sessions
\* create_dispute up to the query for an existing open dispute
BeginDispute(s, u, e) ==
    /\ sess[s].pc = "idle"
    /\ DisputeOutcome(exchanges, disputes, u, e) = "ok"
    /\ sess' = [sess EXCEPT ![s] =
          [IdleSession EXCEPT !.pc = "dispute_read", !.user = u, !.exch = e]]
    /\ UNCHANGED dbvars

\* exchange.status = DISPUTED; db.add(dispute); db.commit()
DisputeCommit(s) ==
    /\ sess[s].pc = "dispute_read"
    /\ disputes' = Append(disputes,
          [exch |-> sess[s].exch, reporter |-> sess[s].user, status |-> "open"])
    /\ exchanges' = [exchanges EXCEPT ![sess[s].exch].status = "disputed"]
    /\ sess' = [sess EXCEPT ![s] = IdleSession]
    /\ UNCHANGED <<balance, ledger, books, payments>>

StartDispute ==
    /\ Len(disputes) + InFlight({"dispute_read"}) < ConcMaxDisputes
    /\ \E s \in Sessions, u \in Users, e \in 1..MaxExchanges : BeginDispute(s, u, e)

CommitDispute == \E s \in Sessions : DisputeCommit(s)

NextDispute ==
    \/ ListBook
    \/ Request
    \/ Approve
    \/ StartDispute
    \/ CommitDispute

SpecDispute == Init /\ [][NextDispute]_vars

\* ------------------------------- cancel_exchange commit by commit
\* add_to_wishlist
AddToWishlist(u, b) ==
    /\ IF b \in Ids(books) /\ u \notin books[b].wish
       THEN books' = [books EXCEPT ![b].wish = @ \cup {u}]
       ELSE UNCHANGED books
    /\ UNCHANGED <<balance, ledger, exchanges, disputes, payments, sess>>

\* cancel_exchange up to the return of check_and_send_wishlist_alerts: the
\* checks, book.is_available = True in the session, and, when the item is
\* on a wishlist, the db.commit() of the alert, which writes that column.
\* sess[s].avail tells whether the column has been committed.
CancelAlert(s, u, e) ==
    /\ sess[s].pc = "idle"
    /\ CancelOutcome(exchanges, u, e) = "ok"
    /\ LET b == exchanges[e].book
           alerted == books[b].wish # {}
       IN /\ books' = IF alerted THEN [books EXCEPT ![b].avail = TRUE] ELSE books
          /\ sess' = [sess EXCEPT ![s] =
                [IdleSession EXCEPT !.pc = "cancel_alerted", !.user = u,
                                    !.exch = e, !.book = b, !.avail = alerted]]
    /\ UNCHANGED <<balance, ledger, exchanges, disputes, payments>>

\* exchange.status = CANCELLED; db.commit(): the status, and the
\* availability unless the alert has committed it already
CancelCommit(s) ==
    /\ sess[s].pc = "cancel_alerted"
    /\ exchanges' = [exchanges EXCEPT ![sess[s].exch].status = "cancelled"]
    /\ books' = IF sess[s].avail THEN books
                ELSE [books EXCEPT ![sess[s].book].avail = TRUE]
    /\ sess' = [sess EXCEPT ![s] = IdleSession]
    /\ UNCHANGED <<balance, ledger, disputes, payments>>

Wish == \E u \in WishUsers, b \in 1..MaxBooks : AddToWishlist(u, b)

StartCancel ==
    \E s \in Sessions, u \in Users, e \in 1..MaxExchanges : CancelAlert(s, u, e)

CommitCancel == \E s \in Sessions : CancelCommit(s)

NextCancel ==
    \/ ListBook
    \/ Wish
    \/ Request
    \/ StartCancel
    \/ CommitCancel

SpecCancel == Init /\ [][NextCancel]_vars

\* ---------------------- the cycle search on every graph of a few edges
\* ExchangeGraph is a class of its own: add_edge accepts any pair of users.
\* The rows of exchanges stand for the add_edge calls that built the graph.
EdgeRow(u, o) ==
    [book |-> 1, requester |-> u, owner |-> o, status |-> "pending",
     cost |-> 0, completed |-> FALSE]

RECURSIVE EdgeLists(_)
EdgeLists(n) ==
    IF n = 0 THEN {<<>>}
    ELSE LET shorter == EdgeLists(n - 1)
         IN shorter \cup {Append(l, EdgeRow(u, o)) :
                            l \in {x \in shorter : Len(x) = n - 1},
                            u \in Users, o \in Users}

InitGraph ==
    /\ balance = [u \in Users |-> 0]
    /\ ledger = <<>>
    /\ books = <<>>
    /\ exchanges \in EdgeLists(GraphMaxEdges)
    /\ disputes = <<>>
    /\ payments = <<>>
    /\ sess = [s \in Sessions |-> IdleSession]

\* graph.has_cycle(start) on the graph as built; the answer stays with the
\* caller
HasCycleCall(s, start) ==
    /\ sess' = [sess EXCEPT ![s] =
          [IdleSession EXCEPT
              !.pc = IF HasCycle(BuildExchangeGraph(exchanges, NoExchange), start)
                     THEN "cycle" ELSE "no_cycle",
              !.user = start]]
    /\ UNCHANGED dbvars

\* graph.would_create_cycle(from, to) on the graph as built
WouldCreateCycleCall(s, from, to) ==
    /\ sess' = [sess EXCEPT ![s] =
          [IdleSession EXCEPT
              !.pc = IF WouldCreateCycle(BuildExchangeGraph(exchanges, NoExchange),
                                         from, to)
                     THEN "would_cycle" ELSE "would_not_cycle",
              !.user = from, !.owner = to]]
    /\ UNCHANGED dbvars

AskHasCycle == \E start \in Users : HasCycleCall("s1", start)

AskWouldCreateCycle == \E from \in Users, to \in Users : WouldCreateCycleCall("s1", from, to)

NextGraph ==
    \/ AskHasCycle
    \/ AskWouldCreateCycle

SpecGraph == InitGraph /\ [][NextGraph]_vars

\* ------------------- the request calls, every PENDING request decided
\* a PENDING request is approved, rejected or cancelled
Decide(e) ==
    /\ e \in Ids(exchanges)
    /\ exchanges[e].status = "pending"
    /\ \E u \in Users :
          \/ RejectExchange(u, e)
          \/ CancelExchange(u, e)
          \/ Len(ledger) + 2 <= MaxLedger /\ ApproveExchange(u, e)

NextLive ==
    \/ ListBook
    \/ Request
    \/ Approve
    \/ Reject
    \/ Cancel

\* no PENDING request is left undecided for ever
SpecLive ==
    /\ Init
    /\ [][NextLive]_vars
    /\ \A e \in 1..MaxExchanges : WF_vars(Decide(e))

\* ================================================================ claims
\* the requests on book b that are PENDING or APPROVED
ActiveOn(b) ==
    {e \in Ids(exchanges) :
        exchanges[e].book = b /\ exchanges[e].status \in ActiveStatuses}

\* obligation edges requester -> recorded owner of the active requests
ActiveEdges ==
    {<<exchanges[e].requester, exchanges[e].owner>> :
        e \in {x \in Ids(exchanges) : exchanges[x].status \in ActiveStatuses}}

\* users reachable from the set S along edges E (S included)
RECURSIVE ReachableFrom(_, _)
ReachableFrom(E, S) ==
    LET T == S \cup {edge[2] : edge \in {d \in E : d[1] \in S}}
    IN IF T = S THEN S ELSE ReachableFrom(E, T)

PathExists(E, x, y) == y \in ReachableFrom(E, {x})

\* ledger rows appended by the step
NewEntries == {ledger'[i] : i \in (Len(ledger) + 1)..Len(ledger')}

\* C1: for every user the stored balance equals the sum of the amounts of
\* that user's ledger entries, from balance 0 and no entries at signup.
C1_BalanceEqualsLedgerSum ==
    \A u \in Users : balance[u] = SumAmounts(ledger, u)

\* listing, purchase and approval have all posted to the ledger
C1_Witness ==
    /\ \E i \in Ids(ledger) : ledger[i].type = "purchased"
    /\ \E i \in Ids(ledger) : ledger[i].type = "redeemed"
    /\ \E i \in Ids(ledger) : ledger[i].type = "earned" /\ ledger[i].exch # NoExchange
    /\ \E i \in Ids(ledger) : ledger[i].type = "earned" /\ ledger[i].exch = NoExchange

\* C2: no user's balance is negative, and an approval whose debit would take
\* the requester's balance below zero is answered with InsufficientFunds.
C2_NoNegativeBalance ==
    /\ \A u \in Users : balance[u] >= 0
    /\ \A e \in Ids(exchanges) :
          balance[exchanges[e].requester] - exchanges[e].cost < 0
          => ApproveOutcome(exchanges, balance, exchanges[e].owner, e)
                = "InsufficientFunds"

\* a requester who has already paid for one exchange cannot afford another
C2_Witness ==
    \E e \in Ids(exchanges), i \in Ids(ledger) :
        /\ ledger[i].type = "redeemed"
        /\ ledger[i].user = exchanges[e].requester
        /\ ledger[i].exch # e
        /\ balance[exchanges[e].requester] < exchanges[e].cost

\* C3: an item is unavailable iff it has a PENDING or APPROVED request, and
\* it has at most one such request.
C3_UnavailableIffActiveRequest ==
    \A b \in Ids(books) :
        /\ (~books[b].avail) <=> (ActiveOn(b) # {})
        /\ Cardinality(ActiveOn(b)) <= 1

\* C4: a COMPLETED, REJECTED or CANCELLED request keeps its status, except
\* that a COMPLETED request may become DISPUTED.
C4_TerminalStatusIsFinal ==
    [][\A e \in Ids(exchanges) :
          exchanges[e].status \in {"completed", "rejected", "cancelled"}
          => \/ exchanges'[e].status = exchanges[e].status
             \/ /\ exchanges[e].status = "completed"
                /\ exchanges'[e].status = "disputed"]_vars

\* a create call by u on the available item b of another user, while the
\* active requests lead from the item's owner back to u
ChainBack(u, b) ==
    /\ b \in Ids(books)
    /\ books[b].avail
    /\ books[b].owner # u
    /\ PathExists(ActiveEdges, books[b].owner, u)

\* C5: when the active requests contain a chain from the item's owner back
\* to the requester, create answers CircularExchange, persists no request
\* and leaves the item available.
C5_CycleIsRefused ==
    /\ [](\A u \in Users, b \in 1..MaxBooks :
            ChainBack(u, b)
            => CreateOutcome(books, exchanges, balance, u, b) = "CircularExchange")
    /\ [][Len(exchanges') > Len(exchanges)
            => ~ChainBack(exchanges'[Len(exchanges')].requester,
                          exchanges'[Len(exchanges')].book)]_vars

\* A -> B and B -> C are active and C asks for an available item of A
C5_Witness ==
    \E u \in Users, b \in Ids(books) :
        /\ ChainBack(u, b)
        /\ <<books[b].owner, u>> \notin ActiveEdges
        /\ balance[u] >= books[b].value

\* a create call by u on an available item of another user that u can pay,
\* while no chain of active requests leads from the owner back to u
Unrelated(u, b) ==
    /\ b \in Ids(books)
    /\ books[b].avail
    /\ books[b].owner # u
    /\ balance[u] >= books[b].value
    /\ ~PathExists(ActiveEdges, books[b].owner, u)

\* C6: the cycle guard does not veto a request whose owner has no chain of
\* active edges back to the requester; the request is persisted as PENDING.
C6_NoChainIsAccepted ==
    /\ [](\A u \in Users, b \in 1..GuardMaxBooks :
            Unrelated(u, b)
            => CreateOutcome(books, exchanges, balance, u, b) = "ok")
    /\ [][Len(exchanges') > Len(exchanges)
            => LET r == exchanges'[Len(exchanges')]
               IN /\ Len(exchanges') = Len(exchanges) + 1
                  /\ r.status = "pending"
                  /\ r.owner = books[r.book].owner
                  /\ r.cost = books[r.book].value
                  /\ Unrelated(r.requester, r.book)
                  /\ ~books'[r.book].avail]_vars

\* A -> B and B -> C are active and the request of C on D's item is PENDING
C6_Witness ==
    \E e1, e2, e3 \in Ids(exchanges) :
        /\ e1 < e3 /\ e2 < e3
        /\ \A e \in {e1, e2, e3} : exchanges[e].status = "pending"
        /\ exchanges[e1].owner = exchanges[e2].requester
        /\ exchanges[e2].owner = exchanges[e3].requester
        /\ Cardinality({exchanges[e1].requester, exchanges[e2].requester,
                        exchanges[e3].requester, exchanges[e3].owner}) = 4

\* C7: an approval of a PENDING request with cost c, requester R and
\* previous owner O debits R by c, credits O by c, appends exactly the
\* redeemed and the earned entry, makes R the owner of the available item
\* and completes the request.
C7_ApprovalEffects ==
    [][\A e \in Ids(exchanges) :
          /\ exchanges[e].status = "pending"
          /\ exchanges'[e].status = "completed"
          => LET R == exchanges[e].requester
                 b == exchanges[e].book
                 O == books[b].owner
                 c == exchanges[e].cost
             IN /\ balance'[R] = balance[R] - c
                /\ balance'[O] = balance[O] + c
                /\ ledger' = ledger \o <<LedgerEntry(R, -c, "redeemed", e),
                                         LedgerEntry(O, c, "earned", e)>>
                /\ books'[b].owner = R
                /\ books'[b].avail
                /\ exchanges'[e].completed]_vars

\* C9: no committed state shows part of an approval: a step that posts a
\* ledger entry for a request, completes it or moves its item to a new
\* owner does all of these at once, and touches no third user's balance.
C9_ApprovalIsAtomic ==
    [][(ledger' # ledger \/ exchanges' # exchanges \/ books' # books)
        => /\ \A e \in Ids(exchanges) :
                LET R == exchanges[e].requester
                    b == exchanges[e].book
                    c == exchanges[e].cost
                    n == Len(ledger)
                IN \/ (\E x \in NewEntries : x.exch = e)
                   \/ (exchanges[e].status # "completed"
                        /\ exchanges'[e].status = "completed")
                   => /\ Len(ledger') = n + 2
                      /\ ledger'[n + 1] = LedgerEntry(R, -c, "redeemed", e)
                      /\ ledger'[n + 2] =
                            LedgerEntry(ledger'[n + 2].user, c, "earned", e)
                      /\ exchanges'[e].status = "completed"
                      /\ exchanges'[e].completed
                      /\ books'[b].owner = R
                      /\ \A u \in Users \ {R, ledger'[n + 2].user} :
                            balance'[u] = balance[u]
           /\ \A b \in Ids(books) :
                books'[b].owner # books[b].owner
                => \E e \in Ids(exchanges) :
                      /\ exchanges[e].book = b
                      /\ exchanges[e].requester = books'[b].owner
                      /\ exchanges'[e].status = "completed"
                      /\ \E x \in NewEntries : x.exch = e]_vars

\* an approval has committed while another session was between its reads
\* and its commit
C9_Witness ==
    /\ \E e \in Ids(exchanges), i \in Ids(ledger) :
          /\ exchanges[e].status = "completed"
          /\ ledger[i].exch = e
          /\ books[exchanges[e].book].owner = exchanges[e].requester
    /\ \E s \in Sessions : sess[s].pc # "idle"

\* C10: two create calls on the same item by different requesters cannot
\* both succeed: an item never has two PENDING requests.
C10_OnePendingRequestPerItem ==
    \A e1, e2 \in Ids(exchanges) :
        /\ exchanges[e1].book = exchanges[e2].book
        /\ exchanges[e1].status = "pending"
        /\ exchanges[e2].status = "pending"
        => exchanges[e1].requester = exchanges[e2].requester

\* a PENDING request whose requester can no longer pay its snapshot cost
Unaffordable(e) ==
    /\ exchanges[e].status = "pending"
    /\ balance[exchanges[e].requester] < exchanges[e].cost

\* C8: approving a PENDING request whose requester's balance is below the
\* snapshot cost answers InsufficientFunds and changes nothing: the request
\* stays PENDING, no entry is posted for it, and it is approved once the
\* requester can pay.
C8_RefusedApprovalChangesNothing ==
    /\ [](\A e \in Ids(exchanges) :
            exchanges[e].status = "pending"
            => ApproveOutcome(exchanges, balance, exchanges[e].owner, e)
                  = (IF balance[exchanges[e].requester] < exchanges[e].cost
                     THEN "InsufficientFunds" ELSE "ok"))
    /\ [][exchanges' # exchanges \/ ledger' # ledger
            => \A e \in Ids(exchanges) :
                  Unaffordable(e)
                  => /\ exchanges'[e].status # "completed"
                     /\ \A x \in NewEntries : x.exch # e]_vars

\* the owner could pay the cost, the requester cannot
C8_Witness ==
    \E e \in Ids(exchanges) :
        /\ Unaffordable(e)
        /\ balance[exchanges[e].owner] >= exchanges[e].cost

\* the active requests contain a cycle of obligations
ActiveCycle == \E d \in ActiveEdges : PathExists(ActiveEdges, d[2], d[1])

\* C11: under concurrent creation the PENDING/APPROVED requests never
\* contain a cycle: two mutually-referencing create calls cannot both be
\* persisted.
C11_NoCycleUnderConcurrentCreation == ~ActiveCycle

\* C12: after concurrent approvals every user's balance still equals the sum
\* of that user's ledger entries and is not negative.
C12_NoLostUpdate ==
    \A u \in Users : balance[u] = SumAmounts(ledger, u) /\ balance[u] >= 0

\* the request appended by the step
NewRow == exchanges'[Len(exchanges')]

\* a create call by u on the available item b of another user, whose
\* current point value is above u's balance
CannotPay(u, b) ==
    /\ b \in Ids(books)
    /\ books[b].avail
    /\ books[b].owner # u
    /\ balance[u] < books[b].value

\* C13 (as stated): create on an available item of another user by a
\* requester whose balance is below the item's value answers
\* InsufficientFunds.
C13_InsufficientFundsAsStated ==
    \A u \in Users, b \in 1..MaxBooks :
        CannotPay(u, b)
        => CreateOutcome(books, exchanges, balance, u, b) = "InsufficientFunds"

\* C13 (amended): such a call answers InsufficientFunds unless a chain of
\* active requests leads from the owner back to the requester, in which case
\* it answers CircularExchange; in both cases no request is created and the
\* item stays available.
C13_InsufficientFundsRefused ==
    /\ [](\A u \in Users, b \in 1..MaxBooks :
            CannotPay(u, b)
            => CreateOutcome(books, exchanges, balance, u, b)
                  = (IF PathExists(ActiveEdges, books[b].owner, u)
                     THEN "CircularExchange" ELSE "InsufficientFunds"))
    /\ [][Len(exchanges') > Len(exchanges)
            => ~CannotPay(NewRow.requester, NewRow.book)]_vars

\* a requester who has points, but fewer than the item costs, and no chain
C13_Witness ==
    \E u \in Users, b \in Ids(books) :
        /\ CannotPay(u, b)
        /\ balance[u] > 0
        /\ ~PathExists(ActiveEdges, books[b].owner, u)

C15_NotFoundAndUnavailable ==
    /\ [](\A u \in Users, b \in 1..(MaxBooks + 1) :
            /\ b \notin Ids(books)
                => CreateOutcome(books, exchanges, balance, u, b) = "NotFound"
            /\ (b \in Ids(books) /\ ~books[b].avail)
                => CreateOutcome(books, exchanges, balance, u, b) = "Unavailable")
    /\ [][Len(exchanges') > Len(exchanges)
            => /\ NewRow.book \in Ids(books)
               /\ books[NewRow.book].avail]_vars

\* an unavailable item (its owner may ask for it too) and an id with no item
C15_Witness ==
    /\ \E b \in Ids(books) : ~books[b].avail /\ balance[books[b].owner] > 0
    /\ Len(books) < MaxBooks

\* C16: the cycle guard answers false for requester = owner whatever the
\* active requests are, and create on an own available item answers
\* SelfTrade.
C16_SelfRequestIsSelfTrade ==
    \A u \in Users :
        /\ ~CheckCircularExchange(exchanges, u, u)
        /\ \A b \in Ids(books) :
              (books[b].owner = u /\ books[b].avail)
              => CreateOutcome(books, exchanges, balance, u, b) = "SelfTrade"

\* a user with an own available item who is part of the active requests
C16_Witness ==
    \E u \in Users, b \in Ids(books), d \in ActiveEdges :
        /\ books[b].owner = u
        /\ books[b].avail
        /\ u \in {d[1], d[2]}

\* the ledger rows appended by the step, as a sequence
NewLedger == SubSeq(ledger', Len(ledger) + 1, Len(ledger'))

\* C17: the point cost of a request never changes after creation, and an
\* approval moves exactly that amount whatever the item's point value has
\* become since.
C17_CostIsSnapshot ==
    [][/\ \A e \in Ids(exchanges) :
            /\ exchanges'[e].cost = exchanges[e].cost
            /\ \A x \in NewEntries :
                  x.exch = e
                  => x.amount = (IF x.type = "redeemed" THEN -exchanges[e].cost
                                 ELSE exchanges[e].cost)
       /\ \A u \in Users :
            balance'[u] = balance[u] + SumAmounts(NewLedger, u)]_vars

\* a settled request whose cost differs from the value now stored on its item
C17_Witness ==
    \E e \in Ids(exchanges), i \in Ids(ledger) :
        /\ exchanges[e].status = "completed"
        /\ ledger[i].exch = e
        /\ ledger[i].amount = -exchanges[e].cost
        /\ books[exchanges[e].book].value # exchanges[e].cost

\* C18: the point value of an item is not written while the item is
\* unavailable with a PENDING or APPROVED request on it.
C18_ValueFrozenWhileActive ==
    [][\A b \in Ids(books) :
          (ActiveOn(b) # {} /\ ~books[b].avail)
          => books'[b].value = books[b].value]_vars

\* C19: a decide call succeeds only for the user who owns the item at the
\* time of the call.
C19_DecideOnlyByCurrentOwner ==
    \A u \in Users, e \in Ids(exchanges) :
        \/ ApproveOutcome(exchanges, balance, u, e) = "ok"
        \/ RejectOutcome(exchanges, u, e) = "ok"
        => u = books[exchanges[e].book].owner

\* C20: every item has one owner, and a step that changes an item's owner
\* completes a request on that item, posts its entries and makes that
\* request's requester the owner.
C20_OwnerChangesOnlyOnApproval ==
    /\ [](\A b \in Ids(books) : books[b].owner \in Users)
    /\ [][/\ Len(books') >= Len(books)
          /\ \A b \in Ids(books) :
                books'[b].owner # books[b].owner
                => \E e \in Ids(exchanges) :
                      /\ exchanges[e].book = b
                      /\ exchanges[e].requester = books'[b].owner
                      /\ exchanges'[e].status = "completed"
                      /\ exchanges'[e].completed
                      /\ \E x \in NewEntries : x.exch = e]_vars

\* an item now owned by the requester of a completed request on it, while
\* another request has been rejected, cancelled or disputed
C20_Witness ==
    \E e \in Ids(exchanges), f \in Ids(exchanges) :
        /\ exchanges[e].status = "completed"
        /\ books[exchanges[e].book].owner = exchanges[e].requester
        /\ exchanges[e].owner # exchanges[e].requester
        /\ exchanges[f].status \in {"rejected", "cancelled", "disputed"}

\* C21: a rejection of a PENDING request by the owner recorded on it succeeds,
\* sets the status to REJECTED and makes the item available; it changes no
\* balance, adds no ledger entry and leaves every item's owner as it was.
C21_RejectPendingFrame ==
    /\ [](\A e \in Ids(exchanges) :
            exchanges[e].status = "pending"
            => RejectOutcome(exchanges, exchanges[e].owner, e) = "ok")
    /\ [][\A u \in Users, e \in Ids(exchanges) :
            (/\ exchanges[e].status = "pending"
             /\ RejectOutcome(exchanges, u, e) = "ok"
             /\ RejectExchange(u, e))
            => /\ exchanges'[e].status = "rejected"
               /\ books'[exchanges[e].book].avail
               /\ balance' = balance
               /\ ledger' = ledger
               /\ \A b \in Ids(books) : books'[b].owner = books[b].owner]_vars

\* a rejected request that was never settled, its item available again
C21_Witness ==
    \E e \in Ids(exchanges) :
        /\ exchanges[e].status = "rejected"
        /\ ~exchanges[e].completed
        /\ books[exchanges[e].book].avail
        /\ \A i \in Ids(ledger) : ledger[i].exch # e

\* the callers cancel_exchange accepts as part of the exchange
Parties(e) == {exchanges[e].requester, exchanges[e].owner}

C23_CancelNonPendingRefused ==
    /\ [](\A e \in Ids(exchanges) : \A u \in Parties(e) :
            exchanges[e].status # "pending"
            => CancelOutcome(exchanges, u, e) = "InvalidState")
    /\ [][\A u \in Users, e \in Ids(exchanges) :
            (exchanges[e].status # "pending" /\ CancelExchange(u, e))
            => UNCHANGED vars]_vars

\* a settled or disputed request next to a rejected or cancelled one
C23_Witness ==
    \E e \in Ids(exchanges), f \in Ids(exchanges) :
        /\ exchanges[e].status \in {"completed", "disputed"}
        /\ exchanges[f].status \in {"rejected", "cancelled"}

\* C24: dispute succeeds exactly for a party of a request that is APPROVED or
\* COMPLETED and has no open dispute; it then adds one open dispute for the
\* request and sets the status to DISPUTED, changing no balance, ledger
\* entry or item; in every other case it changes nothing.
C24_DisputeOnlyAfterSettlement ==
    /\ [](\A u \in Users, e \in Ids(exchanges) :
            DisputeOutcome(exchanges, disputes, u, e) = "ok"
            <=> /\ u \in Parties(e)
                /\ exchanges[e].status \in {"approved", "completed"}
                /\ \A d \in Ids(disputes) :
                      disputes[d].exch = e => disputes[d].status # "open")
    /\ [][\A u \in Users, e \in Ids(exchanges) :
            CreateDispute(u, e)
            => IF DisputeOutcome(exchanges, disputes, u, e) = "ok"
               THEN /\ Len(disputes') = Len(disputes) + 1
                    /\ SubSeq(disputes', 1, Len(disputes)) = disputes
                    /\ disputes'[Len(disputes')].exch = e
                    /\ disputes'[Len(disputes')].status = "open"
                    /\ exchanges'[e].status = "disputed"
                    /\ UNCHANGED <<balance, ledger, books>>
               ELSE UNCHANGED vars]_vars

\* a disputed request, next to a request that was never settled
C24_Witness ==
    \E e \in Ids(exchanges), f \in Ids(exchanges), d \in Ids(disputes) :
        /\ exchanges[e].status = "disputed"
        /\ disputes[d].exch = e
        /\ disputes[d].status = "open"
        /\ exchanges[f].status \in {"pending", "rejected", "cancelled"}

\* the open disputes recorded for request e
OpenDisputes(e) ==
    {d \in Ids(disputes) : disputes[d].exch = e /\ disputes[d].status = "open"}

\* C25: every exchange request has at most one open dispute, also when two
\* dispute calls on the same request run concurrently.
C25_AtMostOneOpenDispute ==
    \A e \in Ids(exchanges) : Cardinality(OpenDisputes(e)) <= 1

\* the inputs of a valuation of item b with the oracle out of play
ValuationInputs(bks, exs, b) ==
    <<bks[b].cond, ActiveCount(exs, b), CompletedCount(exs, b),
      CopiesAvailable(bks, b)>>

\* C26: with the oracle disabled, an "excellent" item with no active and no
\* completed request and exactly one available copy is valued at 23.
C26_ExcellentSingleCopyIs23 ==
    \A b \in Ids(books) :
        ValuationInputs(books, exchanges, b) = <<"excellent", 0, 0, 1>>
        => CalculateBookValue(books, exchanges, b, OracleDisabled) = 23

ClampedReply(n) == IF n < 5 THEN 5 ELSE IF n > 50 THEN 50 ELSE n

\* C28: whatever the oracle does, the valuation returns an integer >= 1; on
\* every oracle failure the base points are those of the condition table and
\* the result is that of the disabled oracle; on a numeric reply the base
\* points are the reply clamped to [5, 50]. A stored point value is always
\* one of these results.
C28_OracleFallback ==
    /\ [](\A b \in Ids(books), r \in OracleReplies :
            LET v == CalculateBookValue(books, exchanges, b, r)
                in == ValuationInputs(books, exchanges, b)
            IN /\ v \in Nat /\ v >= 1
               /\ r.kind # "number"
                  => /\ v = Valuate(DefaultBasePoints(in[1]), in[1], 0,
                                    in[2], in[3], in[4])
                     /\ v = CalculateBookValue(books, exchanges, b, OracleDisabled)
               /\ r.kind = "number"
                  => v = Valuate(ClampedReply(r.n), in[1], 0, in[2], in[3], in[4]))
    /\ [][\A b \in Ids(books') :
            (b \notin Ids(books) \/ books'[b].value # books[b].value)
            => \E r \in OracleReplies :
                  books'[b].value = CalculateBookValue(books', exchanges, b, r)]_vars

\* an item whose stored value comes from a reply below the range, next to
\* one whose stored value comes from a reply above it
C28_Witness ==
    \E b1 \in Ids(books), b2 \in Ids(books) :
        LET i1 == ValuationInputs(books, exchanges, b1)
            i2 == ValuationInputs(books, exchanges, b2)
        IN /\ books[b1].value = Valuate(5, i1[1], 0, i1[2], i1[3], i1[4])
           /\ books[b1].value
                 # CalculateBookValue(books, exchanges, b1, OracleDisabled)
           /\ books[b2].value = Valuate(50, i2[1], 0, i2[2], i2[3], i2[4])
           /\ books[b2].value
                 # CalculateBookValue(books, exchanges, b2, OracleDisabled)

\* C29: the ledger is append-only: every step keeps each existing entry's
\* user, amount, type and exchange reference and its place, and at most adds
\* entries after them.
C29_LedgerAppendOnly ==
    [][/\ Len(ledger') >= Len(ledger)
       /\ \A i \in Ids(ledger) : ledger'[i] = ledger[i]]_vars

\* a purchase whose payment was later reported failed, its entry still in
\* the ledger beside the entries of a settled exchange
C29_Witness ==
    /\ \E p \in Ids(payments) : payments[p].status = "failed"
    /\ \E i \in Ids(ledger) : ledger[i].type = "purchased"
    /\ \E i \in Ids(ledger) : ledger[i].type = "redeemed"

\* C30: a request that is COMPLETED, REJECTED, CANCELLED or DISPUTED is no
\* edge of the cycle guard: when such a request of A for an item of B exists
\* and no chain of PENDING or APPROVED requests leads from A to B, a request
\* of B for an available item of A that B can pay is accepted.
C30_TerminalRequestIsNoEdge ==
    \A e \in Ids(exchanges), b \in Ids(books) :
        (/\ exchanges[e].status \notin ActiveStatuses
         /\ exchanges[e].requester # exchanges[e].owner
         /\ books[b].owner = exchanges[e].requester
         /\ Unrelated(exchanges[e].owner, b))
        => CreateOutcome(books, exchanges, balance, exchanges[e].owner, b) = "ok"

\* a request of B for an item of A was persisted after a request of A
\* for an item of B had been settled, rejected, cancelled or disputed
C30_Witness ==
    \E e \in Ids(exchanges), f \in Ids(exchanges) :
        /\ e < f
        /\ exchanges[e].status \notin ActiveStatuses
        /\ exchanges[e].requester # exchanges[e].owner
        /\ exchanges[f].requester = exchanges[e].owner
        /\ exchanges[f].owner = exchanges[e].requester
        /\ exchanges[f].status = "pending"

\* C31: with the handlers run one at a time, the requester -> recorded owner
\* edges of the PENDING/APPROVED requests never close a cycle, and
\* detect_exchange_cycles returns no cycle.
C31_ActiveGraphAcyclic ==
    /\ \A u \in Users :
          \A d \in ActiveEdges : d[1] = u => ~PathExists(ActiveEdges, d[2], u)
    /\ DetectExchangeCycles(exchanges) = <<>>

\* two PENDING requests chained through a common user, after a request
\* that would have closed a cycle was refused
C31_Witness ==
    /\ \E e, f \in Ids(exchanges) :
          /\ exchanges[e].status = "pending"
          /\ exchanges[f].status = "pending"
          /\ exchanges[e].owner = exchanges[f].requester
    /\ \E u \in Users, b \in Ids(books) : ChainBack(u, b)

\* C32: no request ever has status APPROVED: an approval takes a PENDING
\* request to COMPLETED in one step, and every dispute is filed on a request
\* that is COMPLETED.
C32_ApprovedNeverStored ==
    /\ [](\A e \in Ids(exchanges) : exchanges[e].status # "approved")
    /\ [][/\ \A u \in Users, e \in Ids(exchanges) :
               (/\ exchanges[e].status = "pending"
                /\ ApproveOutcome(exchanges, balance, u, e) = "ok"
                /\ ApproveExchange(u, e))
               => exchanges'[e].status = "completed"
          /\ Len(disputes') > Len(disputes)
             => exchanges[disputes'[Len(disputes')].exch].status = "completed"]_vars

\* a dispute filed on a request that an approval had completed
C32_Witness ==
    \E d \in Ids(disputes) :
        /\ exchanges[disputes[d].exch].status = "disputed"
        /\ exchanges[disputes[d].exch].completed
        /\ \E i \in Ids(ledger) : ledger[i].exch = disputes[d].exch

\* no element of seq occurs twice
NoRepeat(seq) == \A i \in 1..Len(seq), j \in 1..Len(seq) : seq[i] = seq[j] => i = j

\* the graph built from the rows, and the same with the temporary edge of
\* would_create_cycle appended
BuiltGraph == BuildExchangeGraph(exchanges, NoExchange)
WithEdge(from, to) == [BuiltGraph EXCEPT ![from] = Append(@, to)]

\* C33: the cycle search returns a boolean on every graph, with or without
\* cycles, self-loops and duplicate edges, and enters each node at most once.
C33_CycleSearchTerminates ==
    /\ \A start \in Users :
          LET r == Dfs(BuiltGraph, start, <<>>, {})
          IN r.found \in BOOLEAN /\ NoRepeat(r.visited)
    /\ \A from \in Users, to \in Users :
          LET r == Dfs(WithEdge(from, to), from, <<>>, {})
          IN r.found \in BOOLEAN /\ NoRepeat(r.visited)
    /\ sess["s1"].pc \in {"idle", "cycle", "no_cycle", "would_cycle", "would_not_cycle"}

\* a graph with a self-loop, a two-cycle and a duplicated edge has been
\* searched with an answer
C33_Witness ==
    /\ \E e \in Ids(exchanges) : exchanges[e].requester = exchanges[e].owner
    /\ \E e, f \in Ids(exchanges) :
          /\ exchanges[e].requester # exchanges[e].owner
          /\ exchanges[e].requester = exchanges[f].owner
          /\ exchanges[e].owner = exchanges[f].requester
    /\ sess["s1"].pc = "would_cycle"
    /\ InSeq(sess["s1"].owner, BuiltGraph[sess["s1"].user])

\* C34: for every requester and every other user as owner,
\* would_create_cycle answers true exactly when the PENDING/APPROVED requests
\* hold a path from the owner to the requester.
C34_CycleCheckIsExact ==
    \A u \in Users, o \in Users :
        u # o => (WouldCreateCycle(BuiltGraph, u, o)
                    <=> PathExists(ActiveEdges, o, u))

\* the ledger entries of the given type that reference request e
EntriesOf(e, type) ==
    {i \in Ids(ledger) : ledger[i].exch = e /\ ledger[i].type = type}

\* C35: every exchange request settles at most once: at most one redeemed
\* and at most one earned ledger entry reference it, whatever decide calls
\* are made.
C35_SettlesAtMostOnce ==
    \A e \in Ids(exchanges) :
        /\ Cardinality(EntriesOf(e, "redeemed")) <= 1
        /\ Cardinality(EntriesOf(e, "earned")) <= 1

\* C36: for every PENDING request the owner recorded on it is the item's
\* current owner and is not the requester.
C36_PendingOwnerIsCurrent ==
    \A e \in Ids(exchanges) :
        exchanges[e].status = "pending"
        => /\ exchanges[e].owner = books[exchanges[e].book].owner
           /\ exchanges[e].owner # exchanges[e].requester

\* the sum of all users' balances
RECURSIVE TotalPoints(_, _)
TotalPoints(bal, us) ==
    IF us = {} THEN 0
    ELSE LET u == CHOOSE x \in us : TRUE
         IN bal[u] + TotalPoints(bal, us \ {u})

\* C37: create, decide, cancel and dispute never change the sum of all
\* balances; the sum changes only by the listing bonus of a new book and by
\* the amount of a point purchase, each with its ledger entry.
C37_ExchangesConservePoints ==
    [][LET d == TotalPoints(balance', Users) - TotalPoints(balance, Users)
       IN /\ (exchanges' # exchanges \/ disputes' # disputes) => d = 0
          /\ d # 0
             => /\ Len(ledger') = Len(ledger) + 1
                /\ LET x == ledger'[Len(ledger')]
                   IN /\ x.amount = d
                      /\ x.exch = NoExchange
                      /\ \/ /\ x.type = "earned"
                            /\ d = LISTING_BONUS
                            /\ Len(books') = Len(books) + 1
                         \/ /\ x.type = "purchased"
                            /\ d \in POINT_PRICING]_vars

\* points have been listed, bought and moved by an approval between two
\* different users
C37_Witness ==
    /\ \E i \in Ids(ledger) : ledger[i].type = "purchased"
    /\ \E i, j \in Ids(ledger) :
          /\ ledger[i].type = "redeemed"
          /\ ledger[j].type = "earned"
          /\ ledger[j].exch = ledger[i].exch
          /\ ledger[j].exch # NoExchange
          /\ ledger[j].user # ledger[i].user
    /\ \E e \in Ids(exchanges) : exchanges[e].status \in {"rejected", "cancelled", "disputed"}

\* C39: every payment transaction credits its points at most once: the
\* ledger never holds more purchase entries than there are payments,
\* whatever statuses the webhook reports.
C39_PaymentCreditedOnce ==
    /\ Cardinality({i \in Ids(ledger) : ledger[i].type = "purchased"})
          <= Len(payments)
    /\ \A u \in Users :
          SumAmounts(SelectSeq(ledger, LAMBDA x : x.type = "purchased"), u)
             = SumAmounts(payments, u)

\* C38: a cancel is all-or-nothing in the committed rows: no PENDING
\* request has its item available, also when the item is on a wishlist and
\* the alert commits, so no item gets a second PENDING request during a
\* cancel.
C38_CancelIsAllOrNothing ==
    /\ \A e \in Ids(exchanges) :
          exchanges[e].status = "pending" => ~books[exchanges[e].book].avail
    /\ \A e1 \in Ids(exchanges), e2 \in Ids(exchanges) :
          (/\ exchanges[e1].book = exchanges[e2].book
           /\ exchanges[e1].status = "pending"
           /\ exchanges[e2].status = "pending")
          => e1 = e2

\* the PENDING requests on item b which either party can cancel and which
\* the owner of the item, the owner the request records, can reject
Releasable(b) ==
    {e \in Ids(exchanges) :
        /\ exchanges[e].book = b
        /\ exchanges[e].status = "pending"
        /\ exchanges[e].owner = books[b].owner
        /\ CancelOutcome(exchanges, exchanges[e].requester, e) = "ok"
        /\ CancelOutcome(exchanges, exchanges[e].owner, e) = "ok"
        /\ RejectOutcome(exchanges, exchanges[e].owner, e) = "ok"}

\* C40: no item is locked for ever: an unavailable item always has a
\* PENDING request that either party can cancel and the owner can reject,
\* and, when every PENDING request is eventually decided or cancelled, an
\* item that is unavailable eventually becomes available again.
C40_NoItemLockedForever ==
    /\ [](\A b \in Ids(books) : ~books[b].avail => Releasable(b) # {})
    /\ \A b \in 1..MaxBooks :
          (b \in Ids(books) /\ ~books[b].avail)
              ~> (b \in Ids(books) /\ books[b].avail)

\* an item is locked by a PENDING request while another item, whose
\* request was decided or cancelled, is available again
C40_Witness ==
    \E e1 \in Ids(exchanges), e2 \in Ids(exchanges) :
        /\ exchanges[e1].status = "pending"
        /\ ~books[exchanges[e1].book].avail
        /\ exchanges[e2].status \in {"completed", "rejected", "cancelled"}
        /\ books[exchanges[e2].book].avail
====
